---------------------------- MODULE Spec2Model ----------------------------
(***************************************************************************)
(* A model of github-activity: the date-bucketed search paginator of      *)
(* GitHubClient (src/src/config.ts), the JSON and SQLite record stores     *)
(* (src/src/storage.ts) and the tracker that drives them                   *)
(* (src/src/tracker.ts).                                                   *)
(*                                                                         *)
(* Time is counted in ticks.  One tick is the 1000 ms the paginator steps  *)
(* its cursor back by; a day is DayLen ticks (86400 in the program).  The  *)
(* page size (100 in the program) is PerPage and the page cap per window   *)
(* (10 in the program) is MaxPages: both are scaled down so that result    *)
(* sets above and below the per-query cap PerPage * MaxPages are small.    *)
(***************************************************************************)
EXTENDS Integers, Sequences, FiniteSets, TLC

\* ------------------------------------------------------------------ bounds
PerPage == 2
MaxPages == 3
DayLen == 2
MaxItems == 7
MaxFaults == 2
\* ids of stored records run over 1..MaxId
MaxId == 1
\* longest item list handed to append, most records in a snapshot handed to save
MaxIn == 2
\* storage calls are issued while the store holds at most MaxStored records
MaxStored == 3

\* new Date("2008-01-01"): the start of day 1, so that day 0 lies before it.
oldestDate == DayLen
\* The moment paginateSearch is called: the last tick of day 2 ("today"), so
\* that there is a day before the floor, a day after it, and today.
Now == 3 * DayLen - 1
Times == 0..Now

VARIABLES
    dataset,    \* the endpoint's static result set, newest first
    faults,     \* how many responses so far were not the honest page
    pag,        \* paginateSearch's locals and position
    yielded,    \* the ids of every batch the consumer received, concatenated
    nReq,       \* search requests issued
    nWin,       \* windows (outer iterations) started
    lastResp,   \* what the last search request was answered with
    storageType,  \* "json" | "sqlite": the backend createStorage built
    file,       \* the JSON file: <<>> when absent, else <<its parsed text>>
    db,         \* the SQLite tables pull_requests, issues, reviews
    lastOp,     \* the last storage or tracker operation that completed
    everWritten,  \* a save or an append has completed on the store
    cleanBase,  \* every save so far was of a duplicate-free snapshot
    call,       \* a call of tracker.fetchAll in progress: its three fetches
    appending   \* the JsonStorage.append calls in progress, by their caller

pagVars == <<dataset, faults, pag, yielded, nReq, nWin, lastResp, call, appending>>
storeVars == <<storageType, file, db, lastOp, everWritten, cleanBase>>
vars == <<dataset, faults, pag, yielded, nReq, nWin, lastResp,
          storageType, file, db, lastOp, everWritten, cleanBase, call,
          appending>>

\* ----------------------------------------------------------------- helpers
Range(s) == {s[i] : i \in 1..Len(s)}

Min(a, b) == IF a < b THEN a ELSE b

RECURSIVE MinDate(_, _)
\* the loop of lines 394-401: the cursor moves to every older item date
MinDate(cur, items) ==
    IF items = <<>> THEN cur
    ELSE MinDate(IF Head(items).date < cur THEN Head(items).date ELSE cur,
                 Tail(items))

\* currentDate.toISOString().split("T")[0], line 363: the cursor cut to its day
DayStart(t) == (t \div DayLen) * DayLen

RECURSIVE SortedSeqs(_, _)
\* every non-increasing sequence of at most n dates, none above maxT
SortedSeqs(n, maxT) ==
    IF n = 0 THEN {<<>>}
    ELSE {<<>>} \cup
         UNION {{<<t>> \o s : s \in SortedSeqs(n - 1, t)} : t \in 0..maxT}

MkItems(ds) == [i \in 1..Len(ds) |-> [id |-> i, date |-> ds[i]]]

\* ------------------------------------------------------------ the endpoint
\* page `page` (PerPage items a page) of the sequence s
PageOf(s, page) ==
    SubSeq(s, Min((page - 1) * PerPage + 1, Len(s) + 1), Min(page * PerPage, Len(s)))

\* The items the query "<baseQuery> <sortField>:<YYYY-MM-DD" matches: those
\* dated before the start of that day.
Matching(ds, dateFilter) == SelectSeq(ds, LAMBDA it : it.date < dateFilter)

\* An endpoint that honours the query, the descending sort and the page number.
HonestPage(ds, dateFilter, page) == PageOf(Matching(ds, dateFilter), page)

\* the same page after one newer item was put in front of the result set
ShiftedPage(ds, dateFilter, page) ==
    LET m == Matching(ds, dateFilter)
    IN SubSeq(m, Min((page - 1) * PerPage, Len(m) + 1), Min(page * PerPage - 1, Len(m)))

OkResp(items, incomplete) ==
    [kind |-> "ok", items |-> items, incomplete |-> incomplete, status |-> 200]
ErrResp(status) ==
    [kind |-> "error", items |-> <<>>, incomplete |-> FALSE, status |-> status]

\* ------------------------------------------------------------ the paginator
PagInit ==
    [currentDate |-> Now, hasMore |-> TRUE, dateFilter |-> DayStart(Now),
     page |-> 1, batchResults |-> <<>>, pc |-> "request", warnings |-> 0]

\* AfterWindow without the step of line 435: the next window starts at the
\* minimum date seen, not one tick below it
AfterWindow_NoStepBack(p) ==
    LET hasMore == IF p.currentDate <= oldestDate \/ Len(p.batchResults) = 0
                   THEN FALSE ELSE p.hasMore
    IN IF hasMore
       THEN [currentDate |-> p.currentDate, hasMore |-> TRUE,
             dateFilter |-> DayStart(p.currentDate),
             page |-> 1, batchResults |-> <<>>, pc |-> "request",
             warnings |-> p.warnings]
       ELSE [p EXCEPT !.hasMore = FALSE, !.pc = "done"]

\* AfterWindow with the query built once, before the outer loop: the next
\* window searches with the date filter of the window before it
AfterWindow_SameQuery(p) ==
    LET hasMore == IF p.currentDate <= oldestDate \/ Len(p.batchResults) = 0
                   THEN FALSE ELSE p.hasMore
    IN IF hasMore
       THEN [currentDate |-> p.currentDate - 1, hasMore |-> TRUE,
             dateFilter |-> p.dateFilter,
             page |-> 1, batchResults |-> <<>>, pc |-> "request",
             warnings |-> p.warnings]
       ELSE [p EXCEPT !.hasMore = FALSE, !.pc = "done"]

\* lines 430-436, and the top of the next outer iteration (362-367)
AfterWindow(p) ==
    LET hasMore == IF p.currentDate <= oldestDate \/ Len(p.batchResults) = 0
                   THEN FALSE ELSE p.hasMore
    IN IF hasMore
       THEN [currentDate |-> p.currentDate - 1, hasMore |-> TRUE,
             dateFilter |-> DayStart(p.currentDate - 1),
             page |-> 1, batchResults |-> <<>>, pc |-> "request",
             warnings |-> p.warnings]
       ELSE [p EXCEPT !.hasMore = FALSE, !.pc = "done"]

\* the end of a window without lines 426-428: the batch is not yielded
EndInner_Drop(p) == AfterWindow(p)

\* lines 426-428: a non-empty batch is yielded, an empty one is not
EndInner(p) ==
    IF Len(p.batchResults) > 0 THEN [p EXCEPT !.pc = "yield"] ELSE AfterWindow(p)

\* OnSearchResponse without lines 403-406: a short page does not end the paging
OnSearchResponse_NoShortStop(p, r) ==
    IF r.kind = "error"
    THEN IF r.status = 422
         THEN EndInner([p EXCEPT !.currentDate = p.currentDate - DayLen,
                                 !.warnings = @ + 1])
         ELSE [p EXCEPT !.pc = "raised"]
    ELSE IF Len(r.items) = 0
    THEN EndInner([p EXCEPT !.hasMore = FALSE])
    ELSE IF r.incomplete
    THEN EndInner([p EXCEPT !.warnings = @ + 1])
    ELSE LET q == [p EXCEPT !.batchResults = p.batchResults \o r.items,
                            !.currentDate = MinDate(p.currentDate, r.items)]
         IN IF q.page + 1 <= MaxPages
            THEN [q EXCEPT !.page = q.page + 1]
            ELSE EndInner([q EXCEPT !.page = q.page + 1])

\* OnSearchResponse in which a short page ends the window only: hasMore
\* stays true and an older window follows
OnSearchResponse_ShortEndsWindow(p, r) ==
    IF r.kind = "error"
    THEN IF r.status = 422
         THEN EndInner([p EXCEPT !.currentDate = p.currentDate - DayLen,
                                 !.warnings = @ + 1])
         ELSE [p EXCEPT !.pc = "raised"]
    ELSE IF Len(r.items) = 0
    THEN EndInner([p EXCEPT !.hasMore = FALSE])
    ELSE IF r.incomplete
    THEN EndInner([p EXCEPT !.warnings = @ + 1])
    ELSE LET q == [p EXCEPT !.batchResults = p.batchResults \o r.items,
                            !.currentDate = MinDate(p.currentDate, r.items)]
         IN IF Len(r.items) < PerPage
            THEN EndInner(q)
            ELSE IF q.page + 1 <= MaxPages
                 THEN [q EXCEPT !.page = q.page + 1]
                 ELSE EndInner([q EXCEPT !.page = q.page + 1])

\* OnSearchResponse with `while (true)` for the inner loop: no page cap
OnSearchResponse_NoCap(p, r) ==
    IF r.kind = "error"
    THEN IF r.status = 422
         THEN EndInner([p EXCEPT !.currentDate = p.currentDate - DayLen,
                                 !.warnings = @ + 1])
         ELSE [p EXCEPT !.pc = "raised"]
    ELSE IF Len(r.items) = 0
    THEN EndInner([p EXCEPT !.hasMore = FALSE])
    ELSE IF r.incomplete
    THEN EndInner([p EXCEPT !.warnings = @ + 1])
    ELSE LET q == [p EXCEPT !.batchResults = p.batchResults \o r.items,
                            !.currentDate = MinDate(p.currentDate, r.items)]
         IN IF Len(r.items) < PerPage
            THEN EndInner([q EXCEPT !.hasMore = FALSE])
            ELSE [q EXCEPT !.page = q.page + 1]

\* OnSearchResponse without the comparison of line 397: the cursor follows
\* the last item of every page
OnSearchResponse_TrackLast(p, r) ==
    IF r.kind = "error"
    THEN IF r.status = 422
         THEN EndInner([p EXCEPT !.currentDate = p.currentDate - DayLen,
                                 !.warnings = @ + 1])
         ELSE [p EXCEPT !.pc = "raised"]
    ELSE IF Len(r.items) = 0
    THEN EndInner([p EXCEPT !.hasMore = FALSE])
    ELSE IF r.incomplete
    THEN EndInner([p EXCEPT !.warnings = @ + 1])
    ELSE LET q == [p EXCEPT !.batchResults = p.batchResults \o r.items,
                            !.currentDate = r.items[Len(r.items)].date]
         IN IF Len(r.items) < PerPage
            THEN EndInner([q EXCEPT !.hasMore = FALSE])
            ELSE IF q.page + 1 <= MaxPages
                 THEN [q EXCEPT !.page = q.page + 1]
                 ELSE EndInner([q EXCEPT !.page = q.page + 1])

\* lines 371-424: one turn of the inner loop, from the response on
OnSearchResponse(p, r) ==
    IF r.kind = "error"
    THEN IF r.status = 422
         THEN EndInner([p EXCEPT !.currentDate = p.currentDate - DayLen,
                                 !.warnings = @ + 1])
         ELSE [p EXCEPT !.pc = "raised"]
    ELSE IF Len(r.items) = 0
    THEN EndInner([p EXCEPT !.hasMore = FALSE])
    ELSE IF r.incomplete
    THEN EndInner([p EXCEPT !.warnings = @ + 1])
    ELSE LET q == [p EXCEPT !.batchResults = p.batchResults \o r.items,
                            !.currentDate = MinDate(p.currentDate, r.items)]
         IN IF Len(r.items) < PerPage
            THEN EndInner([q EXCEPT !.hasMore = FALSE])
            ELSE IF q.page + 1 <= MaxPages
                 THEN [q EXCEPT !.page = q.page + 1]
                 ELSE EndInner([q EXCEPT !.page = q.page + 1])

\* ------------------------------------------------------------- the records
\* A field that holds the JavaScript value undefined, and SQL's NULL.
Undef == "undefined"
SqlNull == "null"
OptionalKeys == {"closedAt", "mergedAt", "body"}
User == "testuser"
Kinds == {"pullRequests", "issues", "reviews"}

\* The records carry the fields the stores read or convert; the other fields
\* of types.ts (title, urls, labels, ...) are copied like `author`.
PullRequestOf(i, merged) ==
    [id |-> i, number |-> 100 + i, createdAt |-> i,
     state |-> IF merged THEN "closed" ELSE "open",
     mergedAt |-> IF merged THEN "2025-01-02T00:00:00Z" ELSE Undef,
     author |-> User]
IssueOf(i) ==
    [id |-> i, number |-> 200 + i, createdAt |-> i, state |-> "open",
     closedAt |-> Undef, author |-> User]
\* a review of pull request #101 (the pull request with id 1)
ReviewOf(i) ==
    [id |-> i, pullRequestNumber |-> 101, submittedAt |-> i,
     state |-> "APPROVED", body |-> Undef, author |-> User]

PrPool == {PullRequestOf(i, m) : i \in 1..MaxId, m \in BOOLEAN}
IssuePool == {IssueOf(i) : i \in 1..MaxId}
\* review ids MaxId and MaxId + 1: the first is also the id of a pull request
ReviewPool == {ReviewOf(i) : i \in MaxId..(MaxId + 1)}
Pool(kind) ==
    IF kind = "pullRequests" THEN PrPool
    ELSE IF kind = "issues" THEN IssuePool ELSE ReviewPool

\* every sequence over S of length at most n
SeqsUpTo(S, n) == UNION {[1..k -> S] : k \in 0..n}

Ids(items) == {items[i].id : i \in 1..Len(items)}
NoDupIds(items) == \A i, j \in 1..Len(items) : items[i].id = items[j].id => i = j

MkData(prs, iss, rvs, when, username) ==
    [pullRequests |-> prs, issues |-> iss, reviews |-> rvs,
     metadata |-> [lastUpdated |-> when, username |-> username,
                   totalPullRequests |-> Len(prs), totalIssues |-> Len(iss),
                   totalReviews |-> Len(rvs)]]

SizeOf(d) == Len(d.pullRequests) + Len(d.issues) + Len(d.reviews)

\* the snapshots handed to save: at most MaxIn records in all
Snapshots ==
    {d \in {MkData(prs, iss, rvs, "given", User) :
                prs \in SeqsUpTo(PrPool, MaxIn), iss \in SeqsUpTo(IssuePool, MaxIn),
                rvs \in SeqsUpTo(ReviewPool, MaxIn)} : SizeOf(d) <= MaxIn}

\* reading a property of a JavaScript object: undefined when it is absent
Get(r, k) == IF k \in DOMAIN r THEN r[k] ELSE Undef

\* two records agree on every field either of them has
SameRecord(a, b) == \A k \in (DOMAIN a) \cup (DOMAIN b) : Get(a, k) = Get(b, k)
SameList(xs, ys) ==
    Len(xs) = Len(ys) /\ \A i \in 1..Len(xs) : SameRecord(xs[i], ys[i])
SameData(a, b) ==
    /\ SameList(a.pullRequests, b.pullRequests)
    /\ SameList(a.issues, b.issues)
    /\ SameList(a.reviews, b.reviews)
    /\ SameRecord(a.metadata, b.metadata)

\* -------------------------------------------------------- the JSON backend
\* JSON.stringify of an object: a property whose value is undefined is left out
StringifyRecord(r) ==
    [k \in {x \in DOMAIN r : ~(x \in OptionalKeys /\ r[x] = Undef)} |-> r[k]]
StringifyList(xs) == [i \in 1..Len(xs) |-> StringifyRecord(xs[i])]
Stringify(d) ==
    [pullRequests |-> StringifyList(d.pullRequests),
     issues |-> StringifyList(d.issues),
     reviews |-> StringifyList(d.reviews),
     metadata |-> StringifyRecord(d.metadata)]

\* the file is written only when there is none yet
JsonSave_KeepOld(f, data) == IF f = <<>> THEN <<Stringify(data)>> ELSE f

\* JsonStorage.save: the file is written anew with the text of data
JsonSave(f, data) == <<Stringify(data)>>

\* JsonStorage.load: null (<<>>) when the file does not exist, else its parse
JsonLoad(f) == f

\* a file whose text is not JSON ("{ invalid json }")
CorruptFile == <<[corrupt |-> TRUE]>>
IsCorrupt(f) == f # <<>> /\ "corrupt" \in DOMAIN f[1]

\* JsonStorage.load: JSON.parse throws, the catch rethrows with the path
JsonLoadRaises(f) == IsCorrupt(f)

\* the missing file branch is taken and the file rewritten
FailedAppend_Repair(f, type, items) ==
    <<Stringify([MkData(<<>>, <<>>, <<>>, "now", "") EXCEPT ![type] = items])>>

\* JsonStorage.append when its load() raised: the catch rethrows, save is
\* not reached
FailedAppend(f, type, items) == f

\* JsonStorage.append
\* the total of a kind left as it was
Recount_Stale(data, type) == data

\* the switch that sets the total of the appended kind to its collection's length
Recount(data, type) ==
    [data EXCEPT
        !.metadata.totalPullRequests =
            IF type = "pullRequests" THEN Len(data[type]) ELSE @,
        !.metadata.totalIssues =
            IF type = "issues" THEN Len(data[type]) ELSE @,
        !.metadata.totalReviews =
            IF type = "reviews" THEN Len(data[type]) ELSE @]

\* the branch for a missing file leaves every total at 0
JsonAppend_NoCount(f, type, items) ==
    LET existing == JsonLoad(f)
    IN IF existing = <<>>
       THEN JsonSave(f, [MkData(<<>>, <<>>, <<>>, "now", "") EXCEPT ![type] = items])
       ELSE LET newItems == SelectSeq(items,
                                LAMBDA it : it.id \notin Ids(existing[1][type]))
                merged == [existing[1] EXCEPT ![type] = @ \o newItems,
                                              !.metadata.lastUpdated = "now"]
            IN JsonSave(f, Recount(merged, type))

\* append that builds the structure anew from the items, as the branch for
\* a missing file does, whatever the file holds
JsonAppend_Rebuild(f, type, items) ==
    JsonSave(f, Recount([MkData(<<>>, <<>>, <<>>, "now", "") EXCEPT ![type] = items],
                        type))

\* append as an upsert: a re-fetched record takes the place of the stored one
JsonAppend_Overwrite(f, type, items) ==
    LET existing == JsonLoad(f)
    IN IF existing = <<>>
       THEN JsonSave(f, Recount([MkData(<<>>, <<>>, <<>>, "now", "") EXCEPT
                                     ![type] = items], type))
       ELSE LET old == existing[1][type]
                Latest(id) == LET js == {j \in 1..Len(items) : items[j].id = id}
                              IN items[CHOOSE j \in js : \A k \in js : k <= j]
                upd == [i \in 1..Len(old) |->
                            IF old[i].id \in Ids(items) THEN Latest(old[i].id)
                            ELSE old[i]]
                newItems == SelectSeq(items, LAMBDA it : it.id \notin Ids(old))
                merged == [existing[1] EXCEPT ![type] = upd \o newItems,
                                              !.metadata.lastUpdated = "now"]
            IN JsonSave(f, Recount(merged, type))

\* append without the filter of lines 94-97: every item is added
JsonAppend_NoDedup(f, type, items) ==
    LET existing == JsonLoad(f)
    IN IF existing = <<>>
       THEN JsonSave(f, Recount([MkData(<<>>, <<>>, <<>>, "now", "") EXCEPT
                                     ![type] = items], type))
       ELSE JsonSave(f, Recount([existing[1] EXCEPT ![type] = @ \o items,
                                                    !.metadata.lastUpdated = "now"],
                                type))

JsonAppend(f, type, items) ==
    LET existing == JsonLoad(f)
    IN IF existing = <<>>
       THEN LET newData == [MkData(<<>>, <<>>, <<>>, "now", "") EXCEPT
                                ![type] = items]
                counted == [newData EXCEPT
                    !.metadata.totalPullRequests =
                        IF type = "pullRequests" THEN Len(items) ELSE 0,
                    !.metadata.totalIssues =
                        IF type = "issues" THEN Len(items) ELSE 0,
                    !.metadata.totalReviews =
                        IF type = "reviews" THEN Len(items) ELSE 0]
            IN JsonSave(f, counted)
       ELSE LET existingData == existing[1]
                existingItems == existingData[type]
                existingIds == Ids(existingItems)
                newItems == SelectSeq(items, LAMBDA it : it.id \notin existingIds)
                merged == [existingData EXCEPT
                    ![type] = existingItems \o newItems,
                    !.metadata.lastUpdated = "now"]
            IN JsonSave(f, Recount(merged, type))

\* ------------------------------------------------------ the SQLite backend
\* A row of reviews names its pull request row by that row's github_id: the
\* column is UNIQUE, and a deleted or replaced pull request row takes its
\* reviews with it (ON DELETE CASCADE), so no review outlives the row it names.
EmptyDb == [pull_requests |-> <<>>, issues |-> <<>>, reviews |-> <<>>]

Truthy(v) == v /= Undef /\ v /= SqlNull /\ v /= ""

\* the parameters of insertPR.run, lines 189-217 and 498-526
PrRow(pr) ==
    [github_id |-> pr.id, pr_number |-> pr.number,
     state |-> IF Truthy(pr.mergedAt) THEN "merged" ELSE pr.state,
     author |-> pr.author, created_at |-> pr.createdAt,
     merged_at |-> IF Truthy(pr.mergedAt) THEN pr.mergedAt ELSE SqlNull]

\* the parameters of insertIssue.run, lines 236-259 and 544-567
IssueRow(issue) ==
    [github_id |-> issue.id, issue_number |-> issue.number,
     state |-> issue.state, author |-> issue.author,
     created_at |-> issue.createdAt,
     closed_at |-> IF Truthy(issue.closedAt) THEN issue.closedAt ELSE SqlNull]

\* the parameters of insertReview.run, lines 280-294 and 599-613
ReviewRow(review, prGithubId) ==
    [github_id |-> review.id, pr_id |-> prGithubId, reviewer |-> review.author,
     state |-> review.state,
     body |-> IF Truthy(review.body) THEN review.body ELSE SqlNull,
     submitted_at |-> review.submittedAt,
     metadata |-> [pullRequestNumber |-> review.pullRequestNumber]]

\* INSERT OR REPLACE INTO pull_requests: the rows that clash on github_id or
\* on (repo_owner, repo_name, pr_number) go, and their reviews with them
InsertPr(d, pr) ==
    LET row == PrRow(pr)
        gone == {x.github_id : x \in {y \in Range(d.pull_requests) :
                                        y.github_id = row.github_id
                                        \/ y.pr_number = row.pr_number}}
    IN [d EXCEPT
          !.pull_requests =
              SelectSeq(d.pull_requests, LAMBDA x : x.github_id \notin gone)
              \o <<row>>,
          !.reviews = SelectSeq(d.reviews, LAMBDA x : x.pr_id \notin gone)]

\* INSERT OR REPLACE INTO issues
InsertIssue(d, issue) ==
    LET row == IssueRow(issue)
    IN [d EXCEPT
          !.issues =
              SelectSeq(d.issues, LAMBDA x : x.github_id /= row.github_id
                                             /\ x.issue_number /= row.issue_number)
              \o <<row>>]

\* INSERT OR REPLACE INTO reviews
InsertReview(d, review, prGithubId) ==
    LET row == ReviewRow(review, prGithubId)
    IN [d EXCEPT
          !.reviews =
              SelectSeq(d.reviews, LAMBDA x : x.github_id /= row.github_id)
              \o <<row>>]

RECURSIVE InsertPrs(_, _)
InsertPrs(d, prs) ==
    IF prs = <<>> THEN d ELSE InsertPrs(InsertPr(d, Head(prs)), Tail(prs))

RECURSIVE InsertIssues(_, _)
InsertIssues(d, iss) ==
    IF iss = <<>> THEN d ELSE InsertIssues(InsertIssue(d, Head(iss)), Tail(iss))

\* lines 273-296: the pull request row is looked up by github_id = review.id
RECURSIVE SaveReviews(_, _)
SaveReviews(d, rvs) ==
    IF rvs = <<>> THEN d
    ELSE LET review == Head(rvs)
             prRows == SelectSeq(d.pull_requests,
                                 LAMBDA x : x.github_id = review.id)
         IN SaveReviews(IF prRows /= <<>>
                        THEN InsertReview(d, review, prRows[1].github_id)
                        ELSE d,
                        Tail(rvs))

\* lines 580-615: the pull request row is looked up by number and repository
RECURSIVE AppendReviews(_, _)
AppendReviews(d, rvs) ==
    IF rvs = <<>> THEN d
    ELSE LET review == Head(rvs)
             prRows == SelectSeq(d.pull_requests,
                                 LAMBDA x : x.pr_number = review.pullRequestNumber)
         IN AppendReviews(IF prRows /= <<>>
                          THEN InsertReview(d, review, prRows[1].github_id)
                          ELSE d,
                          Tail(rvs))

\* SqliteStorage.save: one transaction that empties the three tables and
\* inserts the snapshot
SqliteSave(d, data) ==
    SaveReviews(InsertIssues(InsertPrs(EmptyDb, data.pullRequests), data.issues),
                data.reviews)

\* SqliteStorage.append
SqliteAppend(d, type, items) ==
    IF type = "pullRequests" THEN InsertPrs(d, items)
    ELSE IF type = "issues" THEN InsertIssues(d, items)
    ELSE AppendReviews(d, items)

\* ORDER BY <key> DESC: rows with the larger key first
RECURSIVE OrderByDesc(_, _)
OrderByDesc(rows, key) ==
    IF rows = <<>> THEN <<>>
    ELSE LET m == CHOOSE i \in 1..Len(rows) :
                    \A j \in 1..Len(rows) :
                        rows[j][key] < rows[i][key]
                        \/ (rows[j][key] = rows[i][key] /\ i <= j)
         IN <<rows[m]>> \o
            OrderByDesc([k \in 1..(Len(rows) - 1) |->
                            IF k < m THEN rows[k] ELSE rows[k + 1]], key)

\* lines 335-371, 382-412, 423-445: a row turned back into a record
PrOfRow(row) ==
    [id |-> row.github_id, number |-> row.pr_number, createdAt |-> row.created_at,
     state |-> IF row.state = "merged" THEN "closed" ELSE row.state,
     mergedAt |-> IF Truthy(row.merged_at) THEN row.merged_at ELSE Undef,
     author |-> row.author]
IssueOfRow(row) ==
    [id |-> row.github_id, number |-> row.issue_number,
     createdAt |-> row.created_at, state |-> row.state,
     closedAt |-> IF Truthy(row.closed_at) THEN row.closed_at ELSE Undef,
     author |-> row.author]
ReviewOfRow(row) ==
    [id |-> row.github_id, pullRequestNumber |-> row.metadata.pullRequestNumber,
     submittedAt |-> row.submitted_at, state |-> row.state,
     body |-> IF Truthy(row.body) THEN row.body ELSE Undef,
     author |-> row.reviewer]

MapSeq(xs, F(_)) == [i \in 1..Len(xs) |-> F(xs[i])]

\* SqliteStorage.load: null (<<>>) when the three tables are empty
SqliteLoad(d) ==
    IF Len(d.pull_requests) = 0 /\ Len(d.issues) = 0 /\ Len(d.reviews) = 0
    THEN <<>>
    ELSE LET pullRequests == MapSeq(OrderByDesc(d.pull_requests, "created_at"), PrOfRow)
             issues == MapSeq(OrderByDesc(d.issues, "created_at"), IssueOfRow)
             reviews == MapSeq(OrderByDesc(d.reviews, "submitted_at"), ReviewOfRow)
             username == IF Len(pullRequests) > 0 THEN pullRequests[1].author
                         ELSE IF Len(issues) > 0 THEN issues[1].author
                         ELSE IF Len(reviews) > 0 THEN reviews[1].author
                         ELSE ""
         IN <<MkData(pullRequests, issues, reviews, "now", username)>>

\* ------------------------------------------------- the Storage interface
\* what load() of the store built by createStorage returns
Load == IF storageType = "json" THEN JsonLoad(file) ELSE SqliteLoad(db)

\* load() raises
StorageRaises == storageType = "json" /\ JsonLoadRaises(file)

StoredSize ==
    IF storageType = "json"
    THEN (IF file = <<>> \/ IsCorrupt(file) THEN 0 ELSE SizeOf(file[1]))
    ELSE Len(db.pull_requests) + Len(db.issues) + Len(db.reviews)

\* the last operation: its name, the kind it was about, what the store held
\* before it, whether the store had never been written before it, and the
\* snapshot it saved or the items it appended, and the warnings the storage
\* logged during it
NoOp == [op |-> "none", type |-> "", before |-> 0, fresh |-> FALSE, warnings |-> 0,
         data |-> MkData(<<>>, <<>>, <<>>, "", "")]

\* one of the three fetches of a fetchAll call: the paginator it drives, the
\* place in the yielded batch whose lookup is awaited (0: none), the records
\* pushed so far, the search items yielded to it, the requests and lookups
\* it made, the lookups that came back (returned or raised), the lookups that
\* raised and the warnings it logged
ChainIdle ==
    [pag |-> [PagInit EXCEPT !.pc = "idle"], idx |-> 0, out |-> <<>>,
     nItems |-> 0, nReq |-> 0, nLookups |-> 0, nReturned |-> 0,
     raisedLookups |-> 0, warnings |-> 0]

\* an append call of JsonStorage: where it is (idle, loaded: suspended at
\* `await this.load()` or at the await of the caller; done), the items it was
\* given and the file as its load() read it
AppendIdle == [pc |-> "idle", items |-> <<>>, fileRead |-> <<>>]

\* no append call is in progress
NoAppends == [k \in Kinds |-> AppendIdle]

\* no fetchAll call was made
RunIdle ==
    [tpc |-> "idle", error |-> "", options |-> [maxPages |-> MaxPages],
     chains |-> [k \in Kinds |-> ChainIdle],
     nSaves |-> 0, returned |-> <<>>, stored0 |-> <<<<>>, EmptyDb>>]

\* a store nothing was ever saved to
StoreIdle ==
    /\ storageType = "json"
    /\ file = <<>>
    /\ db = EmptyDb
    /\ lastOp = NoOp
    /\ everWritten = FALSE
    /\ cleanBase = TRUE

\* no search is running
PagIdle ==
    /\ dataset = <<>>
    /\ faults = 0
    /\ pag = [PagInit EXCEPT !.pc = "idle"]
    /\ yielded = <<>>
    /\ nReq = 0
    /\ nWin = 0
    /\ lastResp = OkResp(<<>>, FALSE)
    /\ call = RunIdle
    /\ appending = NoAppends

\* ------------------------------------------------- paginateSearch, driven
InitPag ==
    /\ dataset \in {MkItems(ds) : ds \in SortedSeqs(MaxItems, Now)}
    /\ faults = 0
    /\ pag = PagInit
    /\ yielded = <<>>
    /\ nReq = 0
    /\ nWin = 1
    /\ lastResp = OkResp(<<>>, FALSE)
    /\ StoreIdle
    /\ call = RunIdle
    /\ appending = NoAppends

Respond(r) ==
    /\ pag' = OnSearchResponse(pag, r)
    /\ nReq' = nReq + 1
    /\ lastResp' = r
    /\ nWin' = IF pag'.pc = "request" /\ pag'.page = 1 THEN nWin + 1 ELSE nWin
    /\ UNCHANGED <<dataset, yielded, call, appending>>
    /\ UNCHANGED storeVars

\* the request is answered with the page the query asks for
SearchHonest ==
    /\ pag.pc = "request"
    /\ Respond(OkResp(HonestPage(dataset, pag.dateFilter, pag.page), FALSE))
    /\ UNCHANGED faults

\* the request fails with HTTP 422
Search422 ==
    /\ pag.pc = "request"
    /\ faults < MaxFaults
    /\ faults' = faults + 1
    /\ Respond(ErrResp(422))

\* the request fails with any other error
SearchError ==
    /\ pag.pc = "request"
    /\ faults < MaxFaults
    /\ faults' = faults + 1
    /\ Respond(ErrResp(500))

\* the response is flagged incomplete_results
SearchIncomplete ==
    /\ pag.pc = "request"
    /\ faults < MaxFaults
    /\ faults' = faults + 1
    /\ Respond(OkResp(HonestPage(dataset, pag.dateFilter, pag.page), TRUE))

\* the endpoint ignores the date filter: it pages through the whole result set
SearchUnfiltered ==
    /\ pag.pc = "request"
    /\ faults < MaxFaults
    /\ faults' = faults + 1
    /\ Respond(OkResp(PageOf(dataset, pag.page), FALSE))

\* the result set moved by one item between two page requests (a newer match
\* appeared), so the page starts with the last item of the page before it
SearchShifted ==
    /\ pag.pc = "request"
    /\ pag.page > 1
    /\ faults < MaxFaults
    /\ faults' = faults + 1
    /\ Respond(OkResp(ShiftedPage(dataset, pag.dateFilter, pag.page), FALSE))

\* the consumer takes the yielded batch and resumes the generator
Consume ==
    /\ pag.pc = "yield"
    /\ yielded' = yielded \o [i \in 1..Len(pag.batchResults) |-> pag.batchResults[i].id]
    /\ pag' = AfterWindow(pag)
    /\ nWin' = IF pag'.pc = "request" THEN nWin + 1 ELSE nWin
    /\ UNCHANGED <<dataset, faults, nReq, lastResp, call, appending>>
    /\ UNCHANGED storeVars

NextPag ==
    \/ SearchHonest
    \/ Search422
    \/ SearchError
    \/ SearchIncomplete
    \/ SearchUnfiltered
    \/ SearchShifted
    \/ Consume

SpecPag == InitPag /\ [][NextPag]_vars /\ WF_vars(NextPag)

\* ------------------------------------------------- paginateSearch, a day later
\* paginateSearch called at the last tick of day 3, so that two whole days
\* lie between the floor and today and a window can end in the middle of one.
Later == Now + DayLen

PagInitAt(t) == [PagInit EXCEPT !.currentDate = t, !.dateFilter = DayStart(t)]

\* Result sets that fill the page cap of one window with items of one moment
\* and hold at most two older items.
CapFillers ==
    {[i \in 1..(PerPage * MaxPages) |-> t] \o s :
         t \in 0..Later, s \in SortedSeqs(2, Later)}

InitWindows ==
    /\ dataset \in {MkItems(ds) : ds \in
           {c \in CapFillers : \A i \in 1..(Len(c) - 1) : c[i] >= c[i + 1]}}
    /\ faults = 0
    /\ pag = PagInitAt(Later)
    /\ yielded = <<>>
    /\ nReq = 0
    /\ nWin = 1
    /\ lastResp = OkResp(<<>>, FALSE)
    /\ StoreIdle
    /\ call = RunIdle
    /\ appending = NoAppends

SpecWindows == InitWindows /\ [][NextPag]_vars /\ WF_vars(NextPag)

\* ------------------------------------------------- the Storage calls, driven
InitStore ==
    /\ PagIdle
    /\ storageType \in {"json", "sqlite"}
    /\ file = <<>>
    /\ db = EmptyDb
    /\ lastOp = NoOp
    /\ everWritten = FALSE
    /\ cleanBase = TRUE

CleanData(d) ==
    NoDupIds(d.pullRequests) /\ NoDupIds(d.issues) /\ NoDupIds(d.reviews)

\* storage.save(data)
StorageSave(data) ==
    /\ IF storageType = "json"
       THEN file' = JsonSave(file, data) /\ UNCHANGED db
       ELSE db' = SqliteSave(db, data) /\ UNCHANGED file
    /\ everWritten' = TRUE
    /\ UNCHANGED storageType

\* storage.append(type, items)
StorageAppend(type, items) ==
    /\ IF storageType = "json"
       THEN /\ file' = IF JsonLoadRaises(file)
                       THEN FailedAppend(file, type, items)
                       ELSE JsonAppend(file, type, items)
            /\ UNCHANGED db
       ELSE db' = SqliteAppend(db, type, items) /\ UNCHANGED file
    /\ everWritten' = TRUE
    /\ UNCHANGED storageType

StoreSave ==
    \E data \in Snapshots :
        /\ StorageSave(data)
        /\ lastOp' = [op |-> "save", type |-> "", before |-> Min(StoredSize, 1),
                     fresh |-> ~everWritten, warnings |-> 0, data |-> data]
        /\ cleanBase' = (cleanBase /\ CleanData(data))
        /\ UNCHANGED pagVars

StoreAppend ==
    \E type \in Kinds : \E items \in SeqsUpTo(Pool(type), MaxIn) :
        /\ StorageAppend(type, items)
        /\ StoredSize' <= MaxStored
        /\ lastOp' = [NoOp EXCEPT !.op = IF StorageRaises THEN "appendFailed"
                                          ELSE "append",
                                  !.type = type,
                                  !.before = Min(StoredSize, 1),
                                  !.fresh = ~everWritten]
        /\ UNCHANGED cleanBase
        /\ UNCHANGED pagVars

StoreLoad ==
    /\ lastOp' = [NoOp EXCEPT !.op = IF StorageRaises THEN "loadFailed" ELSE "load",
                              !.before = Min(StoredSize, 1)]
    /\ UNCHANGED <<storageType, file, db, everWritten, cleanBase>>
    /\ UNCHANGED pagVars

NextStore == StoreSave \/ StoreAppend \/ StoreLoad

SpecStore == InitStore /\ [][NextStore]_vars

\* ------------------------------------------------- append, its arguments kept
\* The warnings an append logs. Neither JsonStorage nor SqliteStorage holds a
\* logger: the `if (prRow)` of lines 596-612 has no else branch, and a review
\* without a stored pull request is passed over.
AppendWarnings(type, items) == 0

\* storage.append(type, items), called while the store holds fewer than
\* MaxStored records; lastOp.data[type] keeps the items handed in
AppendCall ==
    \E type \in Kinds : \E items \in SeqsUpTo(Pool(type), MaxIn) :
        /\ StoredSize < MaxStored
        /\ StorageAppend(type, items)
        /\ StoredSize' <= MaxStored
        /\ lastOp' = [NoOp EXCEPT !.op = "append",
                                  !.type = type,
                                  !.before = Min(StoredSize, 1),
                                  !.fresh = ~everWritten,
                                  !.warnings = AppendWarnings(type, items),
                                  !.data = [@ EXCEPT ![type] = items]]
        /\ UNCHANGED cleanBase
        /\ UNCHANGED pagVars

\* the same append once more, right after the first
AppendAgain ==
    /\ lastOp.op = "append"
    /\ StorageAppend(lastOp.type, lastOp.data[lastOp.type])
    /\ lastOp' = [lastOp EXCEPT !.op = "appendAgain",
                                !.before = Min(StoredSize, 1),
                                !.fresh = FALSE]
    /\ UNCHANGED cleanBase
    /\ UNCHANGED pagVars

\* what the store holds when the calls begin: nothing, or a snapshot with a
\* pull request and an issue that an earlier run saved
Stored0 == MkData(<<PullRequestOf(1, TRUE)>>, <<IssueOf(1)>>, <<>>, "given", User)

InitAppend ==
    /\ PagIdle
    /\ storageType \in {"json", "sqlite"}
    /\ \E prior \in BOOLEAN :
          /\ file = IF prior /\ storageType = "json"
                    THEN JsonSave(<<>>, Stored0) ELSE <<>>
          /\ db = IF prior /\ storageType = "sqlite"
                  THEN SqliteSave(EmptyDb, Stored0) ELSE EmptyDb
          /\ everWritten = prior
    /\ lastOp = NoOp
    /\ cleanBase = TRUE

NextAppend == AppendCall \/ AppendAgain

SpecAppend == InitAppend /\ [][NextAppend]_vars

\* ------------------------------- append calls in progress on one JsonStorage
\* JsonStorage.append is an async function: the call runs up to
\* `await this.load()`, where load() has read the file, and is suspended
\* there; whatever else is runnable runs; the call then resumes, merges the
\* items into what it had read, and save() writes the file in one
\* writeFileSync. tracker.fetchPullRequests, fetchIssues and fetchReviews
\* each make one such call.

\* storage.append(type, items) is called: load() reads the file
AppendLoad(type) ==
    /\ appending[type].pc = "idle"
    /\ \E items \in SeqsUpTo(Pool(type), MaxIn) :
          appending' = [appending EXCEPT
                            ![type] = [pc |-> "loaded", items |-> items,
                                       fileRead |-> JsonLoad(file)]]
    /\ UNCHANGED <<dataset, faults, pag, yielded, nReq, nWin, lastResp, call>>
    /\ UNCHANGED storeVars

\* the call resumes after the await: it merges and save() rewrites the file
AppendWrite(type) ==
    /\ appending[type].pc = "loaded"
    /\ file' = JsonAppend(appending[type].fileRead, type, appending[type].items)
    /\ everWritten' = TRUE
    /\ appending' = [appending EXCEPT ![type].pc = "done"]
    /\ lastOp' = [NoOp EXCEPT !.op = "append", !.type = type,
                              !.before = StoredSize, !.fresh = ~everWritten,
                              !.data = [@ EXCEPT ![type] = appending[type].items]]
    /\ UNCHANGED <<dataset, faults, pag, yielded, nReq, nWin, lastResp, call>>
    /\ UNCHANGED <<storageType, db, cleanBase>>

InitConcurrent ==
    /\ PagIdle
    /\ storageType = "json"
    /\ \E prior \in BOOLEAN :
          /\ file = IF prior THEN JsonSave(<<>>, Stored0) ELSE <<>>
          /\ everWritten = prior
    /\ db = EmptyDb
    /\ lastOp = NoOp
    /\ cleanBase = TRUE

NextConcurrent == \E type \in Kinds : AppendLoad(type) \/ AppendWrite(type)

SpecConcurrent == InitConcurrent /\ [][NextConcurrent]_vars

\* ------------------------------------------------- the client's fetches
\* How the search endpoint and the detail lookups behave during one fetch:
\*   "none"     every request is answered as asked
\*   "shifted"  the result set moves by one item before every page after the first
\*   "error"    the first search request fails with HTTP 500
\*   "e422"     the first search request fails with HTTP 422
\*   "lookup"   the detail lookup of the newest item fails
Scripts == {"none", "shifted", "error", "e422", "lookup"}

Answer(ds, script, p, n) ==
    IF script = "error" /\ n = 1 THEN ErrResp(500)
    ELSE IF script = "e422" /\ n = 1 THEN ErrResp(422)
    ELSE IF script = "shifted" /\ p.page > 1
         THEN OkResp(ShiftedPage(ds, p.dateFilter, p.page), FALSE)
         ELSE OkResp(HonestPage(ds, p.dateFilter, p.page), FALSE)

RECURSIVE RunSearch(_, _, _, _, _)
\* `for await (const batch of this.paginateSearch(...))`: the generator run
\* to its end, the batches it yields concatenated in order
RunSearch(ds, script, p, n, out) ==
    IF p.pc = "request"
    THEN RunSearch(ds, script, OnSearchResponse(p, Answer(ds, script, p, n)), n + 1, out)
    ELSE IF p.pc = "yield"
         THEN RunSearch(ds, script, AfterWindow(p), n, out \o p.batchResults)
         ELSE [raised |-> p.pc = "raised", items |-> out]

LookupFails(script, item) == script = "lookup" /\ item.id = 1

\* the record built from pulls.get of a search item
PullRequestFrom(item) == [PullRequestOf(item.id, FALSE) EXCEPT !.createdAt = item.date]
\* the record built from a search item
IssueFrom(item) == [IssueOf(item.id) EXCEPT !.createdAt = item.date]
\* pulls.listReviews of the item's pull request: one review by somebody else
\* and one by the tracked user
ListReviews(item) ==
    <<[id |-> 0, login |-> "someone", submitted_at |-> item.date],
      [id |-> MaxId + item.id - 1, login |-> User, submitted_at |-> item.date]>>
ReviewFrom(item, reviewData) ==
    [id |-> reviewData.id, pullRequestNumber |-> 100 + item.id,
     submittedAt |-> reviewData.submitted_at, state |-> "APPROVED",
     body |-> Undef, author |-> User]

RECURSIVE PullRequestsOf(_, _)
PullRequestsOf(script, items) ==
    IF items = <<>> THEN <<>>
    ELSE (IF LookupFails(script, Head(items)) THEN <<>>
          ELSE <<PullRequestFrom(Head(items))>>)
         \o PullRequestsOf(script, Tail(items))

RECURSIVE ReviewsOf(_, _)
ReviewsOf(script, items) ==
    IF items = <<>> THEN <<>>
    ELSE (IF LookupFails(script, Head(items)) THEN <<>>
          ELSE LET userReviews == SelectSeq(ListReviews(Head(items)),
                                            LAMBDA r : r.login = User)
               IN [i \in 1..Len(userReviews) |-> ReviewFrom(Head(items), userReviews[i])])
         \o ReviewsOf(script, Tail(items))

\* client.fetchPullRequests / fetchIssues / fetchReviews: the records, or raised
ClientFetch(type, ds, script) ==
    LET run == RunSearch(ds, script, PagInit, 1, <<>>)
    IN [raised |-> run.raised,
        records |-> IF type = "pullRequests" THEN PullRequestsOf(script, run.items)
                    ELSE IF type = "issues"
                         THEN [i \in 1..Len(run.items) |-> IssueFrom(run.items[i])]
                         ELSE ReviewsOf(script, run.items)]

\* ------------------------------------------------- the tracker, driven
\* The three searches of the user's activity return the same list of items
\* (pull request k, issue k and the reviewed pull request k for item k), at
\* most one page of them, all dated before today.
InitTracker ==
    /\ dataset \in {MkItems(ds) : ds \in SortedSeqs(PerPage, oldestDate)}
    /\ faults = 0
    /\ pag = [PagInit EXCEPT !.pc = "idle"]
    /\ yielded = <<>>
    /\ nReq = 0
    /\ nWin = 0
    /\ lastResp = OkResp(<<>>, FALSE)
    /\ call = RunIdle
    /\ appending = NoAppends
    /\ storageType \in {"json", "sqlite"}
    /\ file = <<>>
    /\ db = EmptyDb
    /\ lastOp = NoOp
    /\ everWritten = FALSE
    /\ cleanBase = TRUE

Failed(op, type) ==
    /\ lastOp' = [NoOp EXCEPT !.op = op, !.type = type, !.before = StoredSize]
    /\ UNCHANGED <<storageType, file, db, everWritten, cleanBase>>

\* tracker.fetchAll; at most one of its three searches meets a fault
TrackerFetchAll ==
    \E connected \in BOOLEAN : \E hit \in Kinds : \E script \in Scripts :
        LET On(type) == IF type = hit THEN script ELSE "none"
            prs == ClientFetch("pullRequests", dataset, On("pullRequests"))
            iss == ClientFetch("issues", dataset, On("issues"))
            rvs == ClientFetch("reviews", dataset, On("reviews"))
            activityData == MkData(prs.records, iss.records, rvs.records, "now", User)
        IN /\ IF ~connected \/ prs.raised \/ iss.raised \/ rvs.raised
              THEN Failed("fetchAllFailed", "")
              ELSE /\ StorageSave(activityData)
                   /\ lastOp' = [op |-> "fetchAll", type |-> "",
                                 before |-> StoredSize, fresh |-> ~everWritten,
                                 warnings |-> 0,
                                 data |-> activityData]
                   /\ cleanBase' = (cleanBase /\ CleanData(activityData))
           /\ UNCHANGED pagVars

\* the body of tracker.fetchPullRequests / fetchIssues / fetchReviews
FetchKind(type, script) ==
    LET got == ClientFetch(type, dataset, script)
    IN /\ IF got.raised
          THEN Failed("fetchKindFailed", type)
          ELSE /\ StorageAppend(type, got.records)
               /\ lastOp' = [NoOp EXCEPT !.op = IF StorageRaises THEN "fetchKindFailed"
                                                 ELSE "fetchKind",
                                         !.type = type,
                                         !.before = StoredSize,
                                         !.fresh = ~everWritten]
               /\ UNCHANGED cleanBase
       /\ UNCHANGED pagVars

TrackerFetchPullRequests ==
    \E script \in Scripts : FetchKind("pullRequests", script)

TrackerFetchIssues ==
    \E script \in Scripts : FetchKind("issues", script)

TrackerFetchReviews ==
    \E script \in Scripts : FetchKind("reviews", script)

NextTracker ==
    \/ TrackerFetchAll
    \/ TrackerFetchPullRequests
    \/ TrackerFetchIssues
    \/ TrackerFetchReviews

SpecTracker == InitTracker /\ [][NextTracker]_vars

\* ------------------------------------------------- a damaged JSON file
\* the text of the file is damaged from outside the program
FileCorrupted ==
    /\ storageType = "json"
    /\ file # <<>>
    /\ ~IsCorrupt(file)
    /\ file' = CorruptFile
    /\ lastOp' = [NoOp EXCEPT !.op = "corrupted"]
    /\ UNCHANGED <<storageType, db, everWritten, cleanBase>>
    /\ UNCHANGED pagVars

\* tracker.loadActivities
TrackerLoadActivities ==
    /\ lastOp' = [NoOp EXCEPT !.op = IF StorageRaises THEN "loadActivitiesFailed"
                                      ELSE "loadActivities",
                              !.before = Min(StoredSize, 1)]
    /\ UNCHANGED <<storageType, file, db, everWritten, cleanBase>>
    /\ UNCHANGED pagVars

\* tracker.getSummary
TrackerGetSummary ==
    /\ lastOp' = [NoOp EXCEPT !.op = IF StorageRaises THEN "getSummaryFailed"
                                      ELSE "getSummary",
                              !.before = Min(StoredSize, 1)]
    /\ UNCHANGED <<storageType, file, db, everWritten, cleanBase>>
    /\ UNCHANGED pagVars

\* what was on disk before the run: nothing, or an earlier snapshot
PriorData == MkData(<<PullRequestOf(1, TRUE)>>, <<IssueOf(1)>>, <<>>, "given", User)

\* a JSON store, empty or holding an earlier snapshot, and a user with one
\* item of each kind
InitCorrupt ==
    /\ dataset = MkItems(<<oldestDate>>)
    /\ faults = 0
    /\ pag = [PagInit EXCEPT !.pc = "idle"]
    /\ yielded = <<>>
    /\ nReq = 0
    /\ nWin = 0
    /\ lastResp = OkResp(<<>>, FALSE)
    /\ call = RunIdle
    /\ appending = NoAppends
    /\ storageType = "json"
    /\ file \in {<<>>, JsonSave(<<>>, PriorData)}
    /\ db = EmptyDb
    /\ lastOp = NoOp
    /\ everWritten = (file # <<>>)
    /\ cleanBase = TRUE

NextCorrupt ==
    \/ StoreAppend
    \/ StoreLoad
    \/ FileCorrupted
    \/ TrackerFetchPullRequests
    \/ TrackerFetchIssues
    \/ TrackerFetchReviews
    \/ TrackerLoadActivities
    \/ TrackerGetSummary

SpecCorrupt == InitCorrupt /\ [][NextCorrupt]_vars

\* ------------------------------------------------- a save that fails
\* fs.writeFileSync(path, text) that throws: either before the file was
\* opened (the old text stays), or after it was opened for writing, which
\* cuts it to length 0, with none or only a part of the text written; the
\* file then holds text that JSON.parse rejects.
WriteFileFails(f) == {f, CorruptFile}

\* this.db.transaction(fn)(): fn threw, so every statement it ran is undone
Rollback(before, partial) == before

\* SqliteStorage.save when the insert of pull request number k is rejected
\* (a NOT NULL or CHECK constraint): the three DELETEs and the inserts
\* before it have run inside the transaction
SqliteSaveRejected(d, data, k) ==
    Rollback(d, InsertPrs(EmptyDb, SubSeq(data.pullRequests, 1, k - 1)))

\* storage.save(data) raises
StoreSaveFails ==
    /\ \E data \in Snapshots :
          IF storageType = "json"
          THEN /\ file' \in WriteFileFails(file)
               /\ db' = db
          ELSE /\ \E k \in 1..Len(data.pullRequests) :
                      db' = SqliteSaveRejected(db, data, k)
               /\ file' = file
    /\ lastOp' = [NoOp EXCEPT !.op = "saveFailed", !.before = Min(StoredSize, 1)]
    /\ UNCHANGED <<storageType, everWritten, cleanBase>>
    /\ UNCHANGED pagVars

NextAtomic == StoreSave \/ StoreSaveFails \/ StoreLoad

SpecAtomic == InitStore /\ [][NextAtomic]_vars

\* ------------------------------------------------- fetchAll, step by step
\* The three fetches of Promise.all as three chains of awaited requests: a
\* step is the arrival of one response and everything the chain then does
\* up to its next await.

\* the chain goes from a consumed batch to its next request, or ends
AfterBatch(c) ==
    LET p == AfterWindow(c.pag)
    IN [c EXCEPT !.pag = p, !.idx = 0,
                 !.nReq = IF p.pc = "request" THEN @ + 1 ELSE @]

\* the records fetchIssues pushes for a batch
IssuesFrom(items) == [i \in 1..Len(items) |-> IssueFrom(items[i])]

\* the lookups of a batch fanned out: all of them are issued when the batch
\* arrives, and the chain handles their outcomes in order
StartBatch_FanOut(type, c) ==
    LET d == [c EXCEPT !.nItems = @ + Len(c.pag.batchResults)]
    IN IF type = "issues"
       THEN AfterBatch([d EXCEPT !.out = @ \o IssuesFrom(c.pag.batchResults)])
       ELSE [d EXCEPT !.idx = 1, !.nLookups = @ + Len(c.pag.batchResults)]

\* fetchIssues looking every item up, as the other two fetches do
StartBatch_LookupAll(type, c) ==
    [c EXCEPT !.nItems = @ + Len(c.pag.batchResults), !.idx = 1, !.nLookups = @ + 1]

\* the lookups of a batch issued and not awaited: the loop body ends and the
\* generator is resumed while they are in flight
StartBatch_NoAwait(type, c) ==
    LET n == Len(c.pag.batchResults)
    IN AfterBatch([c EXCEPT !.nItems = @ + n,
                            !.nLookups = IF type = "issues" THEN @ ELSE @ + n,
                            !.out = IF type = "issues"
                                    THEN @ \o IssuesFrom(c.pag.batchResults)
                                    ELSE @])

\* a batch was yielded to the loop of fetchPullRequests / fetchIssues / fetchReviews
StartBatch(type, c) ==
    LET d == [c EXCEPT !.nItems = @ + Len(c.pag.batchResults)]
    IN IF type = "issues"
       THEN AfterBatch([d EXCEPT !.out = @ \o IssuesFrom(c.pag.batchResults)])
       ELSE [d EXCEPT !.idx = 1, !.nLookups = @ + 1]

\* the first search request of a chain is issued
StartChain(c) == [c EXCEPT !.pag = PagInit, !.nReq = 1]

\* a chain takes the response r to its search request
OnChainSearch(type, c, r) ==
    LET p == OnSearchResponse(c.pag, r)
        d == [c EXCEPT !.pag = p]
    IN IF p.pc = "yield" THEN StartBatch(type, d)
       ELSE IF p.pc = "request" THEN [d EXCEPT !.nReq = @ + 1]
       ELSE d

\* a lookup that raises ends the fetch
OnChainLookup_Abort(type, c, ok) ==
    IF ok
    THEN [c EXCEPT !.out = @ \o IF type = "pullRequests"
                                THEN <<PullRequestFrom(c.pag.batchResults[c.idx])>>
                                ELSE <<>>,
                   !.nReturned = @ + 1,
                   !.idx = IF @ < Len(c.pag.batchResults) THEN @ + 1 ELSE 0,
                   !.pag = IF c.idx < Len(c.pag.batchResults) THEN @ ELSE AfterWindow(@)]
    ELSE [c EXCEPT !.pag.pc = "raised", !.idx = 0, !.nReturned = @ + 1]

\* OnChainLookup without the filter of lines 602-604: every review of the
\* list becomes a record
OnChainLookup_NoFilter(type, c, ok) ==
    LET item == c.pag.batchResults[c.idx]
        recs == IF type = "pullRequests" THEN <<PullRequestFrom(item)>>
                ELSE [i \in 1..Len(ListReviews(item)) |->
                         ReviewFrom(item, ListReviews(item)[i])]
        d == IF ok THEN [c EXCEPT !.out = @ \o recs, !.nReturned = @ + 1]
             ELSE [c EXCEPT !.warnings = @ + 1, !.nReturned = @ + 1]
    IN IF c.idx < Len(c.pag.batchResults)
       THEN [d EXCEPT !.idx = @ + 1, !.nLookups = @ + 1]
       ELSE AfterBatch(d)

\* a chain takes the outcome of pulls.get / pulls.listReviews for the item
\* at idx: the records are pushed, or one warning is logged
OnChainLookup(type, c, ok) ==
    LET item == c.pag.batchResults[c.idx]
        recs == IF type = "pullRequests" THEN <<PullRequestFrom(item)>>
                ELSE LET userReviews == SelectSeq(ListReviews(item),
                                                  LAMBDA r : r.login = User)
                     IN [i \in 1..Len(userReviews) |-> ReviewFrom(item, userReviews[i])]
        d == IF ok THEN [c EXCEPT !.out = @ \o recs, !.nReturned = @ + 1]
             ELSE [c EXCEPT !.warnings = @ + 1, !.nReturned = @ + 1]
    IN IF c.idx < Len(c.pag.batchResults)
       THEN [d EXCEPT !.idx = @ + 1, !.nLookups = @ + 1]
       ELSE AfterBatch(d)

\* Promise.all of fetchPullRequests started only
AllFetched_First(chs) == chs["pullRequests"].pag.pc = "done"

\* Promise.all resolved: each of the three fetches returned its list
AllFetched(chs) == \A k \in Kinds : chs[k].pag.pc = "done"

\* the three fetches started one after the other's end
StartAll_InTurn(chs) == [chs EXCEPT !["pullRequests"] = StartChain(@)]

\* the three calls inside Promise.all([...]): each runs to its first await
StartAll(chs) == [k \in Kinds |-> StartChain(chs[k])]

\* The result set of each of the three searches: one full page of items of
\* yesterday and one older item, so that a second page and, after an early
\* end of the window, a second window are asked for.
FetchAllSets ==
    {[i \in 1..(PerPage + 1) |-> IF i <= PerPage THEN Now - DayLen ELSE t] :
         t \in 0..oldestDate}

InitFetchAll ==
    /\ dataset \in {MkItems(ds) : ds \in FetchAllSets}
    /\ faults = 0
    /\ pag = [PagInit EXCEPT !.pc = "idle"]
    /\ yielded = <<>>
    /\ nReq = 0
    /\ nWin = 0
    /\ lastResp = OkResp(<<>>, FALSE)
    /\ storageType \in {"json", "sqlite"}
    /\ \E prior \in BOOLEAN :
          /\ file = IF prior /\ storageType = "json"
                    THEN JsonSave(<<>>, PriorData) ELSE <<>>
          /\ db = IF prior /\ storageType = "sqlite"
                  THEN SqliteSave(EmptyDb, PriorData) ELSE EmptyDb
          /\ everWritten = prior
    /\ lastOp = NoOp
    /\ cleanBase = TRUE
    /\ \E n \in 1..MaxPages :
          call = [RunIdle EXCEPT !.stored0 = <<file, db>>, !.options.maxPages = n]
    /\ appending = NoAppends

FaUnchanged ==
    UNCHANGED <<dataset, pag, yielded, nReq, nWin, lastResp, lastOp, cleanBase,
                appending>>

\* the fetches are started whatever testConnection said
AfterPrecheck_NoAbort(c, isConnected) ==
    IF isConnected
    THEN [c EXCEPT !.tpc = "fetching", !.chains = StartAll(@)]
    ELSE [c EXCEPT !.tpc = "failed", !.chains = StartAll(@),
                   !.error = "Failed to authenticate with GitHub"]

\* lines 35-46 of fetchAll: the pre-check, then Promise.all or the throw
AfterPrecheck(c, isConnected) ==
    IF isConnected
    THEN [c EXCEPT !.tpc = "fetching", !.chains = StartAll(@)]
    ELSE [c EXCEPT !.tpc = "failed",
                   !.error = "Failed to authenticate with GitHub"]

\* fetchAll is called: testConnection, then the three fetches are started
FaPrecheck ==
    /\ call.tpc = "idle"
    /\ \E isConnected \in BOOLEAN : call' = AfterPrecheck(call, isConnected)
    /\ UNCHANGED <<faults, storageType, file, db, everWritten>>
    /\ FaUnchanged

\* a chain that raises is not noticed by fetchAll
ChainStep_NoReject(type, c) ==
    /\ call' = [call EXCEPT !.chains[type] = c]
    /\ UNCHANGED <<storageType, file, db, everWritten>>
    /\ FaUnchanged

\* ChainStep with the page number kept in a field of the client, which the
\* three generators share, instead of a local of paginateSearch
ChainStep_SharedPage(type, c) ==
    /\ call' = [call EXCEPT
                  !.chains = [k \in Kinds |->
                                 IF k = type THEN c
                                 ELSE [call.chains[k] EXCEPT !.pag.page = c.pag.page]],
                  !.tpc = IF c.pag.pc = "raised" /\ @ = "fetching" THEN "failed" ELSE @,
                  !.error = IF c.pag.pc = "raised" /\ call.tpc = "fetching"
                            THEN "Failed to fetch " \o type ELSE @]
    /\ UNCHANGED <<storageType, file, db, everWritten>>
    /\ FaUnchanged

\* a chain's step; a chain that raises rejects Promise.all, the others go on
ChainStep(type, c) ==
    /\ call' = [call EXCEPT
                  !.chains[type] = c,
                  !.tpc = IF c.pag.pc = "raised" /\ @ = "fetching" THEN "failed" ELSE @,
                  !.error = IF c.pag.pc = "raised" /\ call.tpc = "fetching"
                            THEN "Failed to fetch " \o type ELSE @]
    /\ UNCHANGED <<storageType, file, db, everWritten>>
    /\ FaUnchanged

Awaiting(type) == call.chains[type].pag.pc = "request"

\* the search request of one chain is answered with the page it asks for
SearchOkFor(type) ==
    /\ Awaiting(type)
    /\ LET c == call.chains[type]
       IN ChainStep(type, OnChainSearch(type, c,
              OkResp(HonestPage(dataset, c.pag.dateFilter, c.pag.page), FALSE)))
    /\ UNCHANGED faults

FaSearchOk == \E type \in Kinds : SearchOkFor(type)

\* the search request of one chain fails with HTTP `status`
SearchFailsFor(type, status) ==
    /\ Awaiting(type)
    /\ faults < MaxFaults
    /\ faults' = faults + 1
    /\ ChainStep(type, OnChainSearch(type, call.chains[type], ErrResp(status)))

\* a search request fails: HTTP 422, a rate limit (403) or a server error (500)
FaSearchFails ==
    \E type \in Kinds : \E status \in {422, 403, 500} : SearchFailsFor(type, status)

\* a search response is flagged incomplete_results
FaSearchIncomplete ==
    \E type \in Kinds :
        /\ Awaiting(type)
        /\ faults < MaxFaults
        /\ faults' = faults + 1
        /\ LET c == call.chains[type]
           IN ChainStep(type, OnChainSearch(type, c,
                  OkResp(HonestPage(dataset, c.pag.dateFilter, c.pag.page), TRUE)))

\* a detail lookup returns
FaLookupOk ==
    \E type \in Kinds :
        /\ call.chains[type].idx > 0
        /\ ChainStep(type, OnChainLookup(type, call.chains[type], TRUE))
        /\ UNCHANGED faults

\* a detail lookup raises
FaLookupFails ==
    \E type \in Kinds :
        /\ call.chains[type].idx > 0
        /\ faults < MaxFaults
        /\ faults' = faults + 1
        /\ ChainStep(type, [OnChainLookup(type, call.chains[type], FALSE)
                               EXCEPT !.raisedLookups = @ + 1])

\* the three fetches awaited with Promise.allSettled: when each of them has
\* returned or raised, what was fetched is saved
FaSave_Settled ==
    /\ call.tpc \in {"fetching", "failed"}
    /\ call.nSaves = 0
    /\ \A k \in Kinds : call.chains[k].pag.pc \in {"done", "raised"}
    /\ LET activityData == MkData(call.chains["pullRequests"].out,
                                  call.chains["issues"].out,
                                  call.chains["reviews"].out, "now", User)
       IN /\ StorageSave(activityData)
          /\ call' = [call EXCEPT !.tpc = "returned", !.nSaves = @ + 1,
                                  !.returned = <<activityData>>]
    /\ UNCHANGED faults
    /\ FaUnchanged

\* Promise.all resolved: the snapshot is assembled, saved and returned
FaSave ==
    /\ call.tpc = "fetching"
    /\ AllFetched(call.chains)
    /\ LET activityData == MkData(call.chains["pullRequests"].out,
                                  call.chains["issues"].out,
                                  call.chains["reviews"].out, "now", User)
       IN /\ StorageSave(activityData)
          /\ call' = [call EXCEPT !.tpc = "returned", !.nSaves = @ + 1,
                                  !.returned = <<activityData>>]
    /\ UNCHANGED faults
    /\ FaUnchanged

NextFetchAll ==
    \/ FaPrecheck
    \/ FaSearchOk
    \/ FaSearchFails
    \/ FaSearchIncomplete
    \/ FaLookupOk
    \/ FaLookupFails
    \/ FaSave

SpecFetchAll == InitFetchAll /\ [][NextFetchAll]_vars


\* ------------------------------------------------------------------ claims
PagEnded == pag.pc \in {"done", "raised"}

AllOlderThanStart == \A i \in 1..Len(dataset) : dataset[i].date < DayStart(Now)

YieldedEachOnce ==
    /\ Len(yielded) = Len(dataset)
    /\ \A i \in 1..Len(dataset) : \E j \in 1..Len(yielded) : yielded[j] = dataset[i].id

\* C1: on an endpoint that honours the query, the sort order and the cap,
\* once paginateSearch is done every item of the result set was yielded.
C1_EnumeratesEveryItem ==
    (pag.pc = "done" /\ faults = 0)
        => \A i \in 1..Len(dataset) : dataset[i].id \in Range(yielded)

\* the case of C2: more than two full pages, fewer items than the cap, all
\* older than the start date, an endpoint that honours the query
C2_Case ==
    /\ faults = 0
    /\ Len(dataset) > 2 * PerPage
    /\ Len(dataset) < PerPage * MaxPages
    /\ AllOlderThanStart

C3_422DoesNotEnd ==
    (lastResp.kind = "error" /\ lastResp.status = 422)
        => (pag.pc \in {"request", "yield"} \/ pag.currentDate <= oldestDate)

\* the bound behind C4: every window issues at most MaxPages requests, every
\* window but the first starts at least one tick below the one before it and
\* not below the floor, so at most Now - oldestDate + 1 windows are started
C4_Bounded ==
    /\ pag.page <= MaxPages + 1
    /\ (pag.pc = "request" => pag.page <= MaxPages)
    /\ nWin <= Now - pag.currentDate + 1
    /\ (nWin > 1 /\ pag.page = 1 /\ pag.pc = "request" => pag.currentDate >= oldestDate)
    /\ nWin <= Now - oldestDate + 1
    /\ nReq <= MaxPages * nWin

\* C4: paginateSearch ends after finitely many search requests whatever the
\* endpoint answers: the number of requests never exceeds
\* MaxPages * (Now - oldestDate + 1), and until the generator has finished or
\* raised it always has a next step.
C4_Terminates == C4_Bounded /\ (PagEnded \/ ENABLED NextPag)

\* the same as a liveness property of the fair specification
PagEventuallyEnds == <>PagEnded

C4_Witness == pag.pc = "done" /\ faults = MaxFaults /\ nWin > 1

\* ------------------------------------------------- claims about the store
TotalsMatch(d) ==
    /\ d.metadata.totalPullRequests = Len(d.pullRequests)
    /\ d.metadata.totalIssues = Len(d.issues)
    /\ d.metadata.totalReviews = Len(d.reviews)

\* the same records, in whatever order
SameUpToOrder(xs, ys) ==
    /\ Len(xs) = Len(ys)
    /\ \A i \in 1..Len(xs) : \E j \in 1..Len(ys) : SameRecord(xs[i], ys[j])
    /\ \A j \in 1..Len(ys) : \E i \in 1..Len(xs) : SameRecord(xs[i], ys[j])

\* C5: on a JSON store that started empty or from saved duplicate-free
\* snapshots, after any sequence of append calls no id occurs twice in a
\* collection and each total equals its collection's length.
C5_AppendKeepsIdsUnique ==
    (storageType = "json" /\ cleanBase /\ Load # <<>>) =>
        (CleanData(Load[1]) /\ TotalsMatch(Load[1]))

\* C8: on the JSON backend, load() right after save(D) returns a snapshot
\* equal to D field for field, whatever the file held before.
C8_JsonSaveReplaces ==
    (storageType = "json" /\ lastOp.op = "save") =>
        (Load # <<>> /\ SameData(Load[1], lastOp.data))

\* a snapshot with records was saved over a file that held records
C8_Witness ==
    /\ storageType = "json"
    /\ lastOp.op = "save"
    /\ lastOp.before > 0
    /\ SizeOf(lastOp.data) > 0
    /\ Load # <<>>
    /\ SameData(Load[1], lastOp.data)

\* every review of d is a review of a pull request of d
ReviewsHaveParents(d) ==
    \A i \in 1..Len(d.reviews) : \E j \in 1..Len(d.pullRequests) :
        d.pullRequests[j].number = d.reviews[i].pullRequestNumber

\* C9: on the SQLite backend, load() right after save(D), for D with unique
\* ids in each collection and every reviewed pull request among its pull
\* requests, returns the pull requests, issues and reviews of D up to
\* ordering; an absent snapshot counts as three empty collections here.
C9_SqliteSaveKeepsAll ==
    (/\ storageType = "sqlite"
     /\ lastOp.op = "save"
     /\ CleanData(lastOp.data)
     /\ ReviewsHaveParents(lastOp.data)) =>
        LET got == IF Load = <<>> THEN MkData(<<>>, <<>>, <<>>, "", "") ELSE Load[1]
        IN /\ SameUpToOrder(got.pullRequests, lastOp.data.pullRequests)
           /\ SameUpToOrder(got.issues, lastOp.data.issues)
           /\ SameUpToOrder(got.reviews, lastOp.data.reviews)

\* C10: load() returns no snapshot exactly when nothing was ever saved or
\* appended to the store, on either backend.
C10_NullIffNeverWritten ==
    (Load = <<>>) <=> ~everWritten

\* C6: after every fetchAll and every fetchKind of the tracker, and the save
\* or append it ends with, the snapshot load() returns has each total equal
\* to the length of its collection.
C6_TotalsMatchLengths == Load # <<>> => TotalsMatch(Load[1])

\* a fetch of one kind added records to a JSON store that already held some
C6_Witness ==
    /\ storageType = "json"
    /\ lastOp.op = "fetchKind"
    /\ lastOp.before > 0
    /\ StoredSize > lastOp.before
    /\ TotalsMatch(Load[1])

\* C7: the snapshot fetchAll saved has no two pull requests, no two issues
\* and no two reviews with the same id.
C7_FetchAllIdsUnique ==
    (lastOp.op = "fetchAll" /\ Load # <<>>) => CleanData(Load[1])

\* the snapshot append(type, items) creates when there is none
CreatedBy(type, items) ==
    [pullRequests |-> IF type = "pullRequests" THEN items ELSE <<>>,
     issues |-> IF type = "issues" THEN items ELSE <<>>,
     reviews |-> IF type = "reviews" THEN items ELSE <<>>]

\* load() returns the three lists of want, with totals equal to their lengths
LoadsExactly(want) ==
    /\ Load # <<>>
    /\ SameList(Load[1].pullRequests, want.pullRequests)
    /\ SameList(Load[1].issues, want.issues)
    /\ SameList(Load[1].reviews, want.reviews)
    /\ TotalsMatch(Load[1])

\* the first call on a never-written store is append(type, items)
FirstAppend(type, items) ==
    /\ ~everWritten
    /\ lastOp'.op = "append"
    /\ lastOp'.type = type
    /\ StorageAppend(type, items)

AuthError == "Failed to authenticate with GitHub"
StoreAsBefore == <<file, db>> = call.stored0
HadData == call.stored0 # <<<<>>, EmptyDb>>

\* C12: when the pre-check of fetchAll fails, fetchAll fails with the
\* authentication error, no search request and no lookup was issued, save
\* was not called and the store is as it was before the call.
C12_AuthFailureAborts ==
    (call.tpc = "failed" /\ call.error = AuthError) =>
        /\ \A k \in Kinds : call.chains[k].nReq = 0 /\ call.chains[k].nLookups = 0
        /\ call.nSaves = 0
        /\ StoreAsBefore

\* fetchAll failed at the pre-check over a store that held a snapshot
C12_Witness ==
    /\ call.tpc = "failed"
    /\ call.error = AuthError
    /\ HadData
    /\ StoreAsBefore

\* the items of the yielded batch whose lookup has not returned yet
Remaining(c) == IF c.idx > 0 THEN Len(c.pag.batchResults) - c.idx + 1 ELSE 0

\* C13: in fetchPullRequests and fetchReviews one warning is logged for each
\* lookup that raised, every other yielded item whose lookup returned has its
\* record in the result (n - k records once the fetch is over), and while
\* only lookups have failed no fetch raises and fetchAll does not fail.
C13_LookupFailuresSkipped ==
    /\ \A type \in {"pullRequests", "reviews"} :
          LET c == call.chains[type]
          IN /\ c.warnings = c.raisedLookups
             /\ Len(c.out) = c.nItems - Remaining(c) - c.raisedLookups
    /\ (faults = call.chains["pullRequests"].raisedLookups
                 + call.chains["reviews"].raisedLookups) =>
          /\ \A k \in Kinds : call.chains[k].pag.pc # "raised"
          /\ call.tpc = "failed" => call.error = AuthError

\* fetchPullRequests ended: the lookup of the first item raised, the later
\* items were processed
C13_Witness ==
    LET c == call.chains["pullRequests"]
    IN /\ c.pag.pc = "done"
       /\ c.raisedLookups = 1
       /\ c.warnings = 1
       /\ c.nItems > 1
       /\ Len(c.out) = c.nItems - 1
       /\ c.out[1].id # dataset[1].id

\* C14: save is called at most once, exactly when fetchAll returns, only
\* after the three fetches returned, with the snapshot made of their three
\* lists, the tracked username and totals equal to the lengths; that
\* snapshot is what fetchAll returns and what the store then holds.
C14_SavesOnceAfterAll ==
    /\ call.nSaves <= 1
    /\ (call.tpc = "returned") <=> (call.nSaves = 1)
    /\ call.nSaves = 1 =>
          /\ \A k \in Kinds : call.chains[k].pag.pc = "done"
          /\ call.returned =
                <<MkData(call.chains["pullRequests"].out, call.chains["issues"].out,
                         call.chains["reviews"].out, "now", User)>>
          /\ TotalsMatch(call.returned[1])
          /\ call.returned[1].metadata.username = User
          /\ IF storageType = "json"
             THEN file = <<Stringify(call.returned[1])>>
             ELSE db = SqliteSave(call.stored0[2], call.returned[1])

\* fetchAll returned a snapshot with records of each kind
C14_Witness ==
    /\ call.tpc = "returned"
    /\ call.nSaves = 1
    /\ \A k \in Kinds : Len(call.returned[1][k]) > 0

\* C15: once the pre-check passed, each of the three fetches has issued its
\* first search request, before any response and whatever was answered to
\* the others since.
C15_AllStartTogether ==
    (call.tpc # "idle" /\ call.error # AuthError) =>
        \A k \in Kinds : call.chains[k].nReq >= 1

\* the first request of fetchReviews was never answered and the other two
\* fetches ran to their end
C15_Witness ==
    /\ call.chains["reviews"].nReq = 1
    /\ call.chains["reviews"].pag.pc = "request"
    /\ call.chains["pullRequests"].pag.pc = "done"
    /\ call.chains["issues"].pag.pc = "done"
    /\ Len(call.chains["pullRequests"].out) > 0

\* C16: a fetch run with maxPages = N issues at most N search requests for
\* each kind.
C16_MaxPagesHonoured ==
    \A k \in Kinds : call.chains[k].nReq <= call.options.maxPages

\* C17: the first search request that fails with a rate-limit or server
\* error (HTTP 403, 500) does not fail the fetch: the request is issued again.
C17_TransientErrorRetried ==
    [][\A type \in Kinds : \A status \in {403, 500} :
          (faults = 0 /\ SearchFailsFor(type, status)) =>
              (call'.chains[type].pag.pc = "request" /\ call'.tpc = "fetching")]_vars

C18_Raised ==
    (\E k \in Kinds : call.chains[k].pag.pc = "raised") =>
        /\ call.tpc = "failed"
        /\ call.error # ""
        /\ call.nSaves = 0
        /\ StoreAsBefore

C18_Step ==
    \A type \in Kinds : \A status \in {403, 500} :
        SearchFailsFor(type, status) =>
            /\ call'.chains[type].pag.pc = "raised"
            /\ call'.chains[type].nReq = call.chains[type].nReq
            /\ call'.tpc = "failed"

RaisedReads ==
    {"loadFailed", "appendFailed", "fetchKindFailed", "loadActivitiesFailed",
     "getSummaryFailed"}

\* C19: while the JSON file is corrupted, load, append, fetchPullRequests,
\* fetchIssues, fetchReviews, loadActivities and getSummary raise and leave
\* the file as it is.
C19_CorruptionSurfaces ==
    [][IsCorrupt(file) => (lastOp'.op \in RaisedReads /\ file' = file)]_vars

\* append raised on a corrupted file, which is still there
C19_Witness ==
    /\ IsCorrupt(file)
    /\ lastOp.op = "appendFailed"

\* the ids load() returns for a kind
LoadedIds(ld, k) == IF ld = <<>> THEN {} ELSE Ids(ld[1][k])

\* C20: no append call removes a stored record: after append, every id that
\* was stored in any of the three collections is still stored in it.
C20_AppendNeverRemoves ==
    [][lastOp'.op = "append" =>
          \A k \in Kinds : LoadedIds(Load, k) \subseteq LoadedIds(Load', k)]_vars

\* C21: a save that fails part-way leaves the store as it was before the
\* call, on either backend: the JSON file and the tables are unchanged.
C21_SaveIsAtomic ==
    [][lastOp'.op = "saveFailed" => (file' = file /\ db' = db)]_vars

\* the total the metadata keeps for a kind
TotalOf(d, k) ==
    IF k = "pullRequests" THEN d.metadata.totalPullRequests
    ELSE IF k = "issues" THEN d.metadata.totalIssues
    ELSE d.metadata.totalReviews

\* C22: on the JSON backend a fetchPullRequests / fetchIssues / fetchReviews
\* of the tracker, whether it succeeds or raises, leaves the other two
\* collections of the stored snapshot, their totals and metadata.username
\* as they were before the call.
C22_FetchKindKeepsOthers ==
    [][(storageType = "json" /\ lastOp'.op \in {"fetchKind", "fetchKindFailed"}
            /\ Load # <<>>) =>
          /\ Load' # <<>>
          /\ \A k \in Kinds \ {lastOp'.type} :
                /\ Load'[1][k] = Load[1][k]
                /\ TotalOf(Load'[1], k) = TotalOf(Load[1], k)
          /\ Load'[1].metadata.username = Load[1].metadata.username]_vars

\* fetchIssues merged issues into a JSON snapshot that fetchAll had saved
\* with pull requests and reviews in it
C22_Witness ==
    /\ storageType = "json"
    /\ lastOp.op = "fetchKind"
    /\ lastOp.type = "issues"
    /\ lastOp.before > 0
    /\ Load # <<>>
    /\ Load[1].metadata.username = User
    /\ Load[1].pullRequests # <<>>
    /\ Load[1].reviews # <<>>
    /\ Load[1].issues # <<>>

\* the minimum sort-field timestamp of the items a window received
BatchMin(p) == MinDate(Now, p.batchResults)

\* C23: when a window that received items, the oldest dated T, is followed
\* by another window, the query of that window matches every item of the
\* result set dated before T - 1 (one tick: the program's second).
C23_NextWindowAdmitsOlder ==
    [][(pag.pc = "yield" /\ pag'.pc = "request" /\ faults = 0) =>
          \A i \in 1..Len(dataset) :
              dataset[i].date < BatchMin(pag) - 1
                  => dataset[i] \in Range(Matching(dataset, pag'.dateFilter))]_vars

\* the last search request was answered, without fault flag, with a page of
\* fewer than PerPage items: none (an empty page) or some (a short page)
EmptyPageLast ==
    nReq > 0 /\ lastResp.kind = "ok" /\ ~lastResp.incomplete /\ Len(lastResp.items) = 0
ShortPageLast ==
    /\ nReq > 0 /\ lastResp.kind = "ok" /\ ~lastResp.incomplete
    /\ Len(lastResp.items) > 0 /\ Len(lastResp.items) < PerPage

C24_Ended == (EmptyPageLast \/ ShortPageLast) => (~pag.hasMore /\ pag.pc \in {"yield", "done"})
C24_Last == (pag.pc = "yield" /\ ~pag.hasMore) => (pag'.pc = "done" /\ nReq' = nReq)

C25_Capped ==
    /\ pag.page >= 1
    /\ pag.pc = "request" => pag.page <= MaxPages
    /\ Len(pag.batchResults) <= PerPage * MaxPages
    /\ Len(pag.batchResults) <= pag.page * PerPage
C25_Ascending ==
    /\ (pag.pc = "request" /\ pag'.pc = "request")
           => (pag'.page = pag.page + 1 /\ pag'.dateFilter = pag.dateFilter)
    /\ (pag.pc = "yield" /\ pag'.pc = "request") => pag'.page = 1

\* C25: within a window the pages are requested in the order 1, 2, 3, ...
\* with the same query, no page above MaxPages is requested, and no batch
\* holds more than PerPage * MaxPages items.
C25_PagesAscendUpToCap == []C25_Capped /\ [][C25_Ascending]_vars

\* a window that ended at the page cap: MaxPages full pages in its batch
C25_Witness ==
    /\ pag.pc = "yield"
    /\ pag.page = MaxPages + 1
    /\ Len(pag.batchResults) = PerPage * MaxPages
    /\ nReq = MaxPages

C26_NonEmpty == pag.pc = "yield" => Len(pag.batchResults) > 0
C26_Order ==
    \* a window ends, by a 422 or an incomplete response too, by yielding
    \* what it accumulated
    /\ (pag.pc = "request" /\ Len(pag.batchResults) > 0
            /\ pag'.pc \notin {"request", "raised"})
           => (pag'.pc = "yield"
               /\ SubSeq(pag'.batchResults, 1, Len(pag.batchResults)) = pag.batchResults)
    \* the next window is started by the consumer's resumption only
    /\ nWin' > nWin
           => (pag.pc = "yield"
               /\ Len(yielded') = Len(yielded) + Len(pag.batchResults)
               /\ \A i \in 1..Len(pag.batchResults) :
                      yielded'[Len(yielded) + i] = pag.batchResults[i].id)
    /\ Len(yielded') > Len(yielded) => pag.pc = "yield"

\* C26: no empty batch is yielded, and what a window accumulated, also when
\* it ended by a 422 or an incomplete-results response, has been yielded
\* before the first request of the next window.
C26_BatchYieldedBeforeNextWindow == []C26_NonEmpty /\ [][C26_Order]_vars

\* a window that had received a page ended by a 422; its batch was yielded
\* and the next window's first request is pending
C26_Witness ==
    /\ pag.pc = "request"
    /\ pag.page = 1
    /\ nWin = 2
    /\ lastResp.kind = "error"
    /\ lastResp.status = 422
    /\ Len(yielded) = PerPage

\* C27: a search response flagged incomplete makes paginateSearch log one
\* warning and end the window, not the pagination: nothing is raised, the
\* page is not asked for again, and the pages accumulated so far are kept
\* and, when there are any, yielded.
C27_IncompleteWarnsAndEndsWindow ==
    [][(pag.pc = "request" /\ nReq' = nReq + 1
            /\ lastResp'.kind = "ok" /\ lastResp'.incomplete) =>
          /\ pag'.warnings = pag.warnings + 1
          /\ pag'.pc \in {"yield", "done"}
          /\ pag'.hasMore = pag.hasMore \/ Len(pag.batchResults) = 0
          /\ pag'.batchResults = pag.batchResults
          /\ Len(pag.batchResults) > 0 => pag'.pc = "yield"]_vars

\* the enrichment requests of a chain that are in flight
InFlight(c) == c.nLookups - c.nReturned

C28_OneInFlight ==
    \A k \in Kinds :
        LET c == call.chains[k]
        IN /\ InFlight(c) \in {0, 1}
           /\ InFlight(c) = 1 <=> c.idx > 0
           \* nothing else of the chain is awaited meanwhile
           /\ c.idx > 0 => c.pag.pc = "yield"
C28_InTurn ==
    \A k \in Kinds :
        call'.chains[k].nLookups > call.chains[k].nLookups
            => /\ call'.chains[k].nLookups = call.chains[k].nLookups + 1
               /\ call'.chains[k].nReturned = call.chains[k].nLookups

\* C28: in each of the three fetches at most one pull-request detail or
\* review-list request is in flight at any moment, and a lookup is issued
\* only when every earlier lookup of that fetch has returned or raised.
C28_LookupsSequential == []C28_OneInFlight /\ [][C28_InTurn]_vars

\* the second lookup of a batch is in flight after the first one raised,
\* while another fetch has a lookup in flight too
C28_Witness ==
    /\ call.chains["pullRequests"].idx = 2
    /\ call.chains["pullRequests"].nLookups = 2
    /\ call.chains["pullRequests"].warnings = 1
    /\ call.chains["reviews"].idx > 0

\* the ids of the reviews of a list written by the tracked user, by others
ByUser(list) == {list[i].id : i \in {j \in 1..Len(list) : list[j].login = User}}
ByOthers(list) == {list[i].id : i \in {j \in 1..Len(list) : list[j].login # User}}

C29_OnlyUser ==
    LET out == call.chains["reviews"].out
    IN \A i \in 1..Len(out) :
           /\ out[i].author = User
           /\ \E k \in 1..Len(dataset) :
                  /\ out[i].id \in ByUser(ListReviews(dataset[k]))
                  /\ out[i].pullRequestNumber = 100 + dataset[k].id
           /\ \A k \in 1..Len(dataset) : out[i].id \notin ByOthers(ListReviews(dataset[k]))
C29_AllOfUser ==
    LET c == call.chains["reviews"]
        d == call'.chains["reviews"]
        new == SubSeq(d.out, Len(c.out) + 1, Len(d.out))
    IN d.nReturned > c.nReturned =>
          /\ SubSeq(d.out, 1, Len(c.out)) = c.out
          /\ IF d.warnings > c.warnings
             THEN new = <<>>
             ELSE Ids(new) = ByUser(ListReviews(c.pag.batchResults[c.idx]))

\* C29: every record fetchReviews collects has the tracked user as author
\* and comes from a review of a matched pull request whose login is the
\* tracked user's; no review by anybody else is collected; and when the
\* review list of a pull request is obtained, every review of the user in
\* it is collected.
C29_ReviewsOfUserOnly == []C29_OnlyUser /\ [][C29_AllOfUser]_vars

\* fetchReviews is done and collected the user's review of every matched
\* pull request, the lists holding somebody else's review too
C29_Witness ==
    /\ call.chains["reviews"].pag.pc = "done"
    /\ call.chains["reviews"].warnings = 0
    /\ Len(call.chains["reviews"].out) = Len(dataset)
    /\ \A k \in 1..Len(dataset) : ByOthers(ListReviews(dataset[k])) # {}

IdSeq(items) == [i \in 1..Len(items) |-> items[i].id]

C30_NoLookups ==
    LET c == call.chains["issues"]
    IN /\ c.nLookups = 0
       /\ c.idx = 0
       /\ Len(c.out) = c.nItems
C30_OnePerItem ==
    LET c == call.chains["issues"]
        d == call'.chains["issues"]
        new == SubSeq(d.out, Len(c.out) + 1, Len(d.out))
        \* the batch: the pages accumulated before this response, and the
        \* page of this response unless it was an error or flagged incomplete
        page == HonestPage(dataset, c.pag.dateFilter, c.pag.page)
    IN /\ SubSeq(d.out, 1, Len(c.out)) = c.out
       /\ d.nItems > c.nItems =>
             /\ IdSeq(new) \in {IdSeq(c.pag.batchResults),
                                IdSeq(c.pag.batchResults \o page)}
             /\ \A i \in 1..Len(new) : new[i] = IssueFrom(dataset[new[i].id])

\* C30: fetchIssues makes search requests only, and collects one issue
\* record for each search item of each batch the paginator yields, in the
\* order of the batch, with the item's id.
C30_IssuesFromSearchOnly == []C30_NoLookups /\ [][C30_OnePerItem]_vars

\* fetchIssues is done after more than one search request and collected an
\* issue for every item of the result set
C30_Witness ==
    /\ call.chains["issues"].pag.pc = "done"
    /\ call.chains["issues"].nReq > 1
    /\ IdSeq(call.chains["issues"].out) = IdSeq(dataset)
    /\ Len(dataset) > PerPage

\* the items of an append whose id was not stored, in input order
Surviving(items, stored) == SelectSeq(items, LAMBDA it : it.id \notin Ids(stored))

\* C31: on the JSON backend append leaves every stored record of the kind
\* as it is and where it is, also one whose id comes in again with other
\* content, and puts the items with ids not yet stored after them in the
\* order they were handed in.
C31_AppendKeepsStoredRecords ==
    [][(storageType = "json" /\ lastOp'.op = "append" /\ Load # <<>>) =>
          LET type == lastOp'.type
              old == Load[1][type]
              new == Load'[1][type]
          IN /\ SubSeq(new, 1, Len(old)) = old
             /\ SameList(SubSeq(new, Len(old) + 1, Len(new)),
                         Surviving(lastOp'.data[type], old))]_vars

\* an append handed in the stored pull request's id with other content:
\* the stored record is the one from before
C31_Witness ==
    /\ storageType = "json"
    /\ lastOp.op = "append"
    /\ lastOp.type = "pullRequests"
    /\ lastOp.before = 1
    /\ Load # <<>>
    /\ Len(Load[1].pullRequests) = 1
    /\ \E i \in 1..Len(lastOp.data.pullRequests) :
           /\ lastOp.data.pullRequests[i].id = Load[1].pullRequests[1].id
           /\ ~SameRecord(lastOp.data.pullRequests[i], Load[1].pullRequests[1])

\* C39: on the JSON backend the same append made a second time, right after
\* the first, leaves the three collections and the three totals as the
\* first left them.
C39_JsonAppendIdempotent ==
    [][(storageType = "json" /\ lastOp'.op = "appendAgain") =>
          /\ Load # <<>> /\ Load' # <<>>
          /\ \A k \in Kinds :
                /\ Load'[1][k] = Load[1][k]
                /\ TotalOf(Load'[1], k) = TotalOf(Load[1], k)]_vars

\* two reviews were appended to a JSON store that held none, and appended
\* again
C39_Witness ==
    /\ storageType = "json"
    /\ lastOp.op = "appendAgain"
    /\ lastOp.type = "reviews"
    /\ Len(lastOp.data.reviews) = 2
    /\ NoDupIds(lastOp.data.reviews)
    /\ Load # <<>>
    /\ SameList(Load[1].reviews, lastOp.data.reviews)

\* a pull request with the review's number (and repository) is stored
HasParent(d, review) ==
    \E i \in 1..Len(d.pull_requests) :
        d.pull_requests[i].pr_number = review.pullRequestNumber

C32_StoredIffParent ==
    (storageType = "sqlite" /\ lastOp'.op = "append" /\ lastOp'.type = "reviews") =>
        \A i \in 1..Len(lastOp'.data.reviews) :
            LET review == lastOp'.data.reviews[i]
            IN HasParent(db, review) <=> review.id \in LoadedIds(Load', "reviews")
C32_Warned ==
    (storageType = "sqlite" /\ lastOp'.op = "append" /\ lastOp'.type = "reviews"
        /\ \E i \in 1..Len(lastOp'.data.reviews) : ~HasParent(db, lastOp'.data.reviews[i]))
    => lastOp'.warnings >= 1

\* C32: on the SQLite backend append("reviews", items) stores a review
\* exactly when its pull request is stored, the append succeeds whatever
\* the others are, and a warning is logged when a review is dropped.
C32_OrphanReviewsDroppedWithWarning == [][C32_StoredIffParent /\ C32_Warned]_vars


\* C33: when append calls interleave on one JsonStorage, after all of them
\* have completed the loaded snapshot holds the items of every one of them.
C33_NoLostUpdate ==
    (/\ \A k \in Kinds : appending[k].pc # "loaded"
     /\ Cardinality({k \in Kinds : appending[k].pc = "done"}) >= 2)
    => \A k \in Kinds :
          appending[k].pc = "done" =>
              Ids(appending[k].items) \subseteq LoadedIds(Load, k)


\* no step of the paginator moves the cursor forward
C34_NeverForward == pag'.currentDate <= pag.currentDate
\* the step that starts another window moves the cursor back by one tick at
\* least, below every item of the batch the window collected
C34_StepBack ==
    nWin' > nWin =>
        /\ pag'.currentDate <= pag.currentDate - 1
        /\ \A i \in 1..Len(pag.batchResults) :
              pag'.currentDate < pag.batchResults[i].date

\* C34: the cursor strictly decreases from one window to the next, by one
\* tick at least, and is never moved forward, whatever the endpoint returns.
C34_CursorStrictlyDecreases == [][C34_NeverForward /\ C34_StepBack]_vars

\* in a later window the endpoint returned items dated after the cursor
C34_Witness ==
    /\ nWin >= 2
    /\ pag.pc = "request"
    /\ pag.page = 2
    /\ lastResp.kind = "ok"
    /\ \E i \in 1..Len(lastResp.items) : lastResp.items[i].date > pag.currentDate


\* every item of the batch being taken is dated before every item yielded
\* so far (an item's id is its place in the result set)
C35_Earlier ==
    (faults = 0 /\ pag.pc = "yield" /\ yielded' # yielded) =>
        \A i \in 1..Len(pag.batchResults) : \A j \in 1..Len(yielded) :
            pag.batchResults[i].date < dataset[yielded[j]].date
C35_NoRepeat ==
    faults = 0 =>
        \A i, j \in 1..Len(yielded) : i # j => yielded[i] # yielded[j]

\* C35: on a static result set and an endpoint that honours the query, every
\* item of a later batch is dated strictly before every item of the batches
\* before it, and no item is yielded twice.
C35_BatchesStrictlyOlder == []C35_NoRepeat /\ [][C35_Earlier]_vars

\* a second batch was yielded after a window that reached the page cap
C35_Witness ==
    /\ faults = 0
    /\ nWin >= 2
    /\ Len(yielded) > PerPage * MaxPages
    /\ pag.pc = "done"


\* a chain never awaits a search response while a lookup of it is in flight
C36_NotTogether ==
    \A k \in Kinds :
        LET c == call.chains[k]
        IN ~(c.pag.pc = "request" /\ InFlight(c) > 0)
\* when the first request of a further window is issued, every item the
\* chain was yielded so far had its lookup, and every lookup has come back
C36_AfterBatch ==
    \A k \in Kinds \ {"issues"} :
        LET c == call.chains[k]
            d == call'.chains[k]
        IN (c.nReq >= 1 /\ d.nReq > c.nReq /\ d.pag.page = 1) =>
              /\ d.nLookups = d.nItems
              /\ d.nReturned = d.nLookups
              /\ d.idx = 0

\* C36: within one fetch the first search request of the next window is
\* issued only after the lookup of every item of the batch has returned or
\* failed, and a search request and a lookup of the same fetch are never in
\* flight together.
C36_SearchAfterLookups == []C36_NotTogether /\ [][C36_AfterBatch]_vars

\* the pull request fetch awaits the first response of its second window,
\* after a batch one of whose lookups failed
C36_Witness ==
    LET c == call.chains["pullRequests"]
    IN /\ c.pag.pc = "request"
       /\ c.pag.page = 1
       /\ c.nReq >= 2
       /\ c.nItems >= 2
       /\ c.nReturned = c.nItems
       /\ c.warnings >= 1


\* one of the three fetches of the call raised
SomeFetchRaised == \E k \in Kinds : call.chains[k].pag.pc = "raised"

C37_NotSaved ==
    SomeFetchRaised =>
        /\ call.tpc = "failed"
        /\ call.nSaves = 0
        /\ call.returned = <<>>
        /\ StoreAsBefore
\* after the failure the other fetches go on, and nothing they do is saved
C37_StaysFailed ==
    call.tpc = "failed" =>
        /\ call'.tpc = "failed"
        /\ call'.nSaves = call.nSaves
        /\ <<file', db'>> = <<file, db>>

\* C37: when one of the three fetches of fetchAll raises, storage.save is
\* not called for that call, then or after the other two fetches have
\* completed, and the store keeps the snapshot it held before the call.
C37_FetchAllIsAllOrNothing == []C37_NotSaved /\ [][C37_StaysFailed]_vars

\* one fetch raised and the other two have completed with records, over a
\* store that held a snapshot
C37_Witness ==
    /\ call.chains["issues"].pag.pc = "raised"
    /\ call.chains["pullRequests"].pag.pc = "done"
    /\ call.chains["reviews"].pag.pc = "done"
    /\ Len(call.chains["pullRequests"].out) > 0
    /\ HadData
    /\ StoreAsBefore


\* what the fetch of one kind returns when it runs alone, every request
\* answered as asked
AloneFetch(type) == ClientFetch(type, dataset, "none").records

IsPrefix(s, t) == Len(s) <= Len(t) /\ s = SubSeq(t, 1, Len(s))

\* while every request was answered as asked, each fetch has collected a
\* prefix of what it collects alone, whatever the other two have done
C38_EachAsAlone ==
    faults = 0 =>
        \A k \in Kinds : IsPrefix(call.chains[k].out, AloneFetch(k))
\* and the snapshot fetchAll assembles, saves and returns is made of the
\* three lists
C38_SameSnapshot ==
    (faults = 0 /\ call.tpc = "returned") =>
        /\ call.returned = <<MkData(AloneFetch("pullRequests"), AloneFetch("issues"),
                                    AloneFetch("reviews"), "now", User)>>
        /\ storageType = "json" => file = JsonSave(file, call.returned[1])
        /\ storageType = "sqlite" => db = SqliteSave(db, call.returned[1])

\* C38: the snapshot fetchAll produces does not depend on the order in
\* which the steps of its three fetches interleave.
C38_InterleavingIndependent == C38_EachAsAlone /\ C38_SameSnapshot

\* fetchAll returned a snapshot of three full lists
C38_Witness ==
    /\ faults = 0
    /\ call.tpc = "returned"
    /\ Len(call.returned[1].pullRequests) = PerPage + 1
    /\ Len(call.returned[1].issues) = PerPage + 1
    /\ Len(call.returned[1].reviews) = PerPage + 1

====
